---- MODULE Spec2Model ----
(***************************************************************************)
(* A model of the N8N chatbot front end: the webhook transport layer of    *)
(* services/n8nService.ts (request construction, response normalisation),  *)
(* and the upload queue and conversation log that App.tsx drives with it.  *)
(***************************************************************************)
EXTENDS Integers, Sequences, FiniteSets, TLC

-----------------------------------------------------------------------------
(* Bounds of the model *)

\* longest file list handed to a transport operation / held in the upload queue
MaxFiles == 2
\* most fields in a JSON object of a response body
MaxFields == 2
\* most chat turns (user messages) in one run
MaxTurns == 2
\* most ingestion submits under way at once: requests outstanding plus clear
\* timers scheduled
MaxSubmits == 2
\* most upload items created in one run
MaxItems == 3
\* most milliseconds the clock of the page advances in one run
MaxClock == 2

-----------------------------------------------------------------------------
(* Values of the JavaScript runtime the code works with *)

\* a JSON value as JSON.parse returns it: null, a string, or an object whose
\* fields hold strings or null; `undefined` is what a missing property reads as
JNull == [t |-> "null"]
JUndefined == [t |-> "undefined"]
JStr(s) == [t |-> "string", s |-> s]
JObj(f) == [t |-> "object", f |-> f]

\* field names of response objects, in the order the bodies list them
KeyOrder == <<"errorMessage", "output", "text", "message", "code">>
Keys == {KeyOrder[i] : i \in 1..Len(KeyOrder)}
FieldStrings == {"", "bad node config", "hello"}
FieldValues == {JStr(s) : s \in FieldStrings} \cup {JNull}

JsonObjects ==
    {JObj(f) : f \in UNION {[ks -> FieldValues] :
                  ks \in {k \in SUBSET Keys : Cardinality(k) <= MaxFields}}}
\* the error n8n reports for a webhook whose Respond mode is misconfigured
UnusedRespondError == "Unused Respond to Webhook node found in the workflow"
JsonValues ==
    {JNull} \cup {JStr(s) : s \in FieldStrings} \cup JsonObjects
    \cup {JObj([message |-> JStr(UnusedRespondError)])}

\* JSON.stringify on these values (no character of the strings needs escaping)
RECURSIVE JSONstringifyFields(_, _, _)
JSONstringifyFields(f, i, first) ==
    IF i > Len(KeyOrder) THEN ""
    ELSE IF KeyOrder[i] \in DOMAIN f
         THEN (IF first THEN "" ELSE ",")
              \o "\"" \o KeyOrder[i] \o "\":"
              \o (IF f[KeyOrder[i]].t = "null" THEN "null"
                  ELSE "\"" \o f[KeyOrder[i]].s \o "\"")
              \o JSONstringifyFields(f, i + 1, FALSE)
         ELSE JSONstringifyFields(f, i + 1, first)

JSONstringify(v) ==
    CASE v.t = "null"   -> "null"
      [] v.t = "string" -> "\"" \o v.s \o "\""
      [] v.t = "object" -> "{" \o JSONstringifyFields(v.f, 1, TRUE) \o "}"

\* the texts that are JSON, each with the value it denotes
JsonTexts == {JSONstringify(v) : v \in JsonValues}
ParseTable == [txt \in JsonTexts |-> CHOOSE v \in JsonValues : JSONstringify(v) = txt]

\* response bodies that are not JSON
RawTexts == {"", "plain text", "Internal Server Error"}
Bodies == RawTexts \cup JsonTexts

\* JSON.parse: the value a JSON text denotes, a SyntaxError for any other text
JSONparse(txt) ==
    IF txt \in JsonTexts THEN [threw |-> FALSE, value |-> ParseTable[txt]]
    ELSE [threw |-> TRUE, value |-> JUndefined]

\* JavaScript truthiness of a value read from a parsed body
Truthy(v) ==
    CASE v.t = "string" -> v.s # ""
      [] v.t = "object" -> TRUE
      [] OTHER          -> FALSE

\* data.name: undefined on a string or a missing field; on null it is a TypeError,
\* which the callers test with IsNullish before reading
Prop(data, name) ==
    IF data.t = "object" /\ name \in DOMAIN data.f THEN data.f[name] ELSE JUndefined
IsNullish(data) == data.t \in {"null", "undefined"}

\* String(v) for the values an Error message or a reply is made of
ToText(v) == IF v.t = "string" THEN v.s ELSE JSONstringify(v)

\* Number.prototype.toString for a natural number
Digits == <<"0", "1", "2", "3", "4", "5", "6", "7", "8", "9">>
RECURSIVE NatToString(_)
NatToString(n) ==
    IF n < Len(Digits) THEN Digits[n + 1]
    ELSE NatToString(n \div Len(Digits)) \o Digits[(n % Len(Digits)) + 1]

-----------------------------------------------------------------------------
(* The transport layer: services/n8nService.ts *)

\* a File of the browser: what the code reads of it
FilePool == {[name |-> "a.png", type |-> "image/png", size |-> 10],
             [name |-> "b.pdf", type |-> "application/pdf", size |-> 2048]}
FileLists == UNION {[1..n -> FilePool] : n \in 0..MaxFiles}

\* new Date().toDateString() on the days a run can see
DateStrings == <<"Thu Oct 29 2026", "Fri Oct 30 2026">>

\* one part of a FormData body, in append order
TextPart(name, value) == [name |-> name, kind |-> "text", value |-> value]
FilePart(name, file) == [name |-> name, kind |-> "file", file |-> file]
\* the history part carries JSON.stringify of an array of {role, content}; the
\* array is kept as the value of the part
JsonPart(name, json) == [name |-> name, kind |-> "json", json |-> json]

\* `file_${index}` for the 0-based index
FileKey(index) == "file_" \o NatToString(index)

\* JSON.stringify({name, type, size, key}) of one file
FileMetadata(file, key) ==
    "{\"name\":\"" \o file.name \o "\",\"type\":\"" \o file.type
    \o "\",\"size\":" \o NatToString(file.size) \o ",\"key\":\"" \o key \o "\"}"

\* files.forEach((file, index) => ...) of sendChatMessage; i is index + 1
RECURSIVE chatFileParts(_, _)
chatFileParts(files, i) ==
    IF i > Len(files) THEN <<>>
    ELSE <<FilePart(FileKey(i - 1), files[i]),
           TextPart("file_metadata", FileMetadata(files[i], FileKey(i - 1)))>>
         \o chatFileParts(files, i + 1)

\* the history with the messages of the user alone
HistoryOf_userOnly(history) ==
    LET mine == SelectSeq(history, LAMBDA h : h.role = "user") IN
    [i \in 1..Len(mine) |-> [role |-> mine[i].role, content |-> mine[i].content]]

\* history.map(h => ({role: h.role, content: h.content}))
HistoryOf(history) ==
    [i \in 1..Len(history) |-> [role |-> history[i].role, content |-> history[i].content]]

\* the FormData with a session id that also depends on the message
chatFormData_sessionPerMessage(message, history, files, date) ==
    <<TextPart("message", message),
      TextPart("chatInput", message),
      TextPart("sessionId", "session-" \o date \o "-" \o message),
      JsonPart("history", HistoryOf(history))>>
    \o chatFileParts(files, 1)
    \o <<TextPart("file_count", NatToString(Len(files)))>>

\* the FormData without the chatInput copy of the message
chatFormData_noChatInput(message, history, files, date) ==
    <<TextPart("message", message),
      TextPart("sessionId", "session-" \o date),
      JsonPart("history", HistoryOf(history))>>
    \o chatFileParts(files, 1)
    \o <<TextPart("file_count", NatToString(Len(files)))>>

\* the FormData sendChatMessage builds
chatFormData(message, history, files, date) ==
    <<TextPart("message", message),
      TextPart("chatInput", message),
      TextPart("sessionId", "session-" \o date),
      JsonPart("history", HistoryOf(history))>>
    \o chatFileParts(files, 1)
    \o <<TextPart("file_count", NatToString(Len(files)))>>

\* the loop with the metadata of a file keyed one past its binary part
RECURSIVE uploadFileParts_shiftedKey(_, _)
uploadFileParts_shiftedKey(files, i) ==
    IF i > Len(files) THEN <<>>
    ELSE <<FilePart(FileKey(i - 1), files[i]),
           TextPart("file_metadata", FileMetadata(files[i], FileKey(i)))>>
         \o uploadFileParts_shiftedKey(files, i + 1)

\* files.forEach((file, index) => ...) of uploadFilesToWebhook; i is index + 1
RECURSIVE uploadFileParts(_, _)
uploadFileParts(files, i) ==
    IF i > Len(files) THEN <<>>
    ELSE <<FilePart(FileKey(i - 1), files[i]),
           TextPart("file_metadata", FileMetadata(files[i], FileKey(i - 1)))>>
         \o uploadFileParts(files, i + 1)

\* textContext || "" for the optional string parameter textContext
OrEmpty(textContext) == IF Truthy(textContext) THEN textContext.s ELSE ""

\* the FormData uploadFilesToWebhook builds
uploadFormData(files, textContext, date) ==
    <<TextPart("message", OrEmpty(textContext)),
      TextPart("chatInput", OrEmpty(textContext)),
      TextPart("sessionId", "ingestion-" \o date)>>
    \o uploadFileParts(files, 1)
    \o <<TextPart("file_count", NatToString(Len(files)))>>

\* what the synchronous part of a transport operation does: it throws, or it
\* issues the fetch calls listed in posts and suspends
Thrown(message) == [threw |-> TRUE, error |-> message, posts |-> <<>>]
Fetching(url, body) ==
    [threw |-> FALSE, error |-> "", posts |-> <<[url |-> url, method |-> "POST", body |-> body]>>]

\* sendChatMessage without its check of the URL
sendChatMessage_unguarded(url, message, history, files, date) ==
    Fetching(url, chatFormData(message, history, files, date))

\* sendChatMessage up to `await fetch`
sendChatMessage(url, message, history, files, date) ==
    IF url = "" THEN Thrown("Chat Webhook URL is not configured.")
    ELSE Fetching(url, chatFormData(message, history, files, date))

\* uploadFilesToWebhook were it to send its request a second time
uploadFilesToWebhook_twice(url, files, textContext, date) ==
    IF url = "" THEN Thrown("Ingestion Webhook URL is not configured.")
    ELSE [threw |-> FALSE, error |-> "",
          posts |-> Fetching(url, uploadFormData(files, textContext, date)).posts
                    \o Fetching(url, uploadFormData(files, textContext, date)).posts]

\* uploadFilesToWebhook up to `await fetch`
uploadFilesToWebhook(url, files, textContext, date) ==
    IF url = "" THEN Thrown("Ingestion Webhook URL is not configured.")
    ELSE Fetching(url, uploadFormData(files, textContext, date))

\* what fetch settles with: a rejection (the request could not be completed) or
\* a Response with its status, status text and body text
StatusTexts == [s \in {200, 500} |-> IF s = 200 THEN "OK" ELSE "Internal Server Error"]
Rejection == [type |-> "reject", error |-> "Failed to fetch", status |-> 0,
              statusText |-> "", text |-> ""]
ResponseOf(status, text) ==
    [type |-> "response", error |-> "", status |-> status,
     statusText |-> StatusTexts[status], text |-> text]
Responses == {Rejection} \cup {ResponseOf(s, b) : s \in DOMAIN StatusTexts, b \in Bodies}

\* response.ok
Ok(response) == response.status >= 200 /\ response.status <= 299

\* a || b || c on values: the first truthy one, else the last
FirstTruthy(a, b, c) == IF Truthy(a) THEN a ELSE IF Truthy(b) THEN b ELSE c

\* errorDesc falling back to the status text whenever no field is usable
chatErrorDesc_statusFallback(response) ==
    LET parsed == JSONparse(response.text) IN
    IF parsed.threw \/ IsNullish(parsed.value) THEN response.statusText
    ELSE IF Truthy(Prop(parsed.value, "errorMessage"))
         THEN ToText(Prop(parsed.value, "errorMessage"))
    ELSE IF Truthy(Prop(parsed.value, "message")) THEN ToText(Prop(parsed.value, "message"))
    ELSE response.statusText

\* errorDesc of sendChatMessage for a response that is not ok
chatErrorDesc(response) ==
    LET parsed == JSONparse(response.text) IN
    IF parsed.threw \/ IsNullish(parsed.value) THEN response.statusText
    ELSE ToText(FirstTruthy(Prop(parsed.value, "errorMessage"),
                            Prop(parsed.value, "message"),
                            JStr(JSONstringify(parsed.value))))

\* the reply with data.text consulted before data.output
chatReply_textFirst(response) ==
    LET parsed == JSONparse(response.text)
        data == parsed.value IN
    IF parsed.threw \/ IsNullish(data) THEN response.text
    ELSE IF Truthy(Prop(data, "text")) THEN ToText(Prop(data, "text"))
    ELSE IF Truthy(Prop(data, "output")) THEN ToText(Prop(data, "output"))
    ELSE IF Truthy(Prop(data, "message")) THEN ToText(Prop(data, "message"))
    ELSE IF data.t = "string" THEN data.s
    ELSE JSONstringify(data)

\* the reply sendChatMessage returns for a response that is ok
chatReply(response) ==
    LET parsed == JSONparse(response.text)
        data == parsed.value IN
    IF parsed.threw \/ IsNullish(data) THEN response.text
    ELSE IF Truthy(Prop(data, "output")) THEN ToText(Prop(data, "output"))
    ELSE IF Truthy(Prop(data, "text")) THEN ToText(Prop(data, "text"))
    ELSE IF Truthy(Prop(data, "message")) THEN ToText(Prop(data, "message"))
    ELSE IF data.t = "string" THEN data.s
    ELSE JSONstringify(data)

\* how an awaited transport operation ends
Returned(value) == [threw |-> FALSE, error |-> "", value |-> value]
Rejected(message) == [threw |-> TRUE, error |-> message, value |-> ""]

\* sendChatMessage with JSON.parse of the reply outside a try block
chatSettle_parseUncaught(response) ==
    IF response.type = "reject" THEN Rejected(response.error)
    ELSE IF ~Ok(response) THEN Rejected(chatErrorDesc(response))
    ELSE IF JSONparse(response.text).threw THEN Rejected("Unexpected end of JSON input")
    ELSE Returned(chatReply(response))

\* sendChatMessage from the settling of its fetch on
chatSettle(response) ==
    IF response.type = "reject" THEN Rejected(response.error)
    ELSE IF ~Ok(response) THEN Rejected(chatErrorDesc(response))
    ELSE Returned(chatReply(response))

\* errorDesc with the two candidate fields consulted in the other order
uploadErrorDesc_messageFirst(response) ==
    LET parsed == JSONparse(response.text) IN
    IF parsed.threw \/ IsNullish(parsed.value) THEN response.statusText
    ELSE ToText(FirstTruthy(Prop(parsed.value, "message"),
                            Prop(parsed.value, "errorMessage"),
                            JStr(JSONstringify(parsed.value))))

\* errorDesc of uploadFilesToWebhook for a response that is not ok
uploadErrorDesc(response) ==
    LET parsed == JSONparse(response.text) IN
    IF parsed.threw \/ IsNullish(parsed.value) THEN response.statusText
    ELSE ToText(FirstTruthy(Prop(parsed.value, "errorMessage"),
                            Prop(parsed.value, "message"),
                            JStr(JSONstringify(parsed.value))))

\* uploadFilesToWebhook from the settling of its fetch on
uploadSettle(response) ==
    IF response.type = "reject" THEN Rejected(response.error)
    ELSE IF ~Ok(response) THEN Rejected(uploadErrorDesc(response))
    ELSE Returned("")

-----------------------------------------------------------------------------
(* State *)

VARIABLES
    \* App.tsx
    activeTab,          \* "upload" or "chat"
    isSettingsOpen,
    config,             \* [ingestionUrl, chatUrl]
    modalConfig,        \* the config state of SettingsModal
    stored,             \* localStorage under LOCAL_STORAGE_CONFIG_KEY
    files,              \* the upload queue: a sequence of FileUploadItem
    textContext,
    isProcessingUpload,
    uploadStatus,       \* null, or {success, message}
    messages,           \* the conversation log: a sequence of ChatMessage
    isChatLoading,
    \* the environment of the page
    today,              \* index in DateStrings of the current day
    now,                \* Date.now(): the clock of the page, in milliseconds
    nextId,             \* how many upload items were created so far
    revoked,            \* the calls of URL.revokeObjectURL so far: their URLs, in order
    clearTimers,        \* how many setTimeout callbacks of handleUpload are scheduled
    uploadReqs,         \* the fetches that calls of uploadFilesToWebhook are suspended on
    chatReqs,           \* the fetches that calls of sendChatMessage are suspended on
    chatLast,           \* the response the latest settled chat fetch got
    uploadLast,         \* the response the latest settled ingestion fetch got
    \* a direct call of a transport operation (TransportSpec)
    probe

appVars == <<activeTab, isSettingsOpen, config, modalConfig, stored, files, textContext, isProcessingUpload,
             uploadStatus, messages, isChatLoading, today, now, nextId, revoked, clearTimers,
             uploadReqs, chatReqs, chatLast, uploadLast>>
vars == <<activeTab, isSettingsOpen, config, modalConfig, stored, files, textContext, isProcessingUpload,
          uploadStatus, messages, isChatLoading, today, now, nextId, revoked, clearTimers,
          uploadReqs, chatReqs, chatLast, uploadLast, probe>>

\* constants.ts
DEFAULT_URL == "https://n8n.edutechnd.org/webhook/n8nchatbot"
DEFAULT_CONFIG == [ingestionUrl |-> DEFAULT_URL, chatUrl |-> DEFAULT_URL]
SAMPLE_QUESTIONS == <<"Summarize the documents I just uploaded.",
                      "What are the key points in the PDF?",
                      "Analyze the tone of the audio file.",
                      "Extract data from the image.">>

\* what a URL field of the settings dialog can hold
Urls == {"", DEFAULT_URL}

\* localStorage.getItem of a key that was never set
NoStored == [present |-> FALSE, text |-> ""]

NoResponse == [type |-> "none", error |-> "", status |-> 0, statusText |-> "", text |-> ""]
NoUploadStatus == [set |-> FALSE, success |-> FALSE, message |-> ""]
NoProbe == [op |-> "none", url |-> "", day |-> 1, message |-> "", context |-> JUndefined,
            history |-> <<>>, files |-> <<>>,
            begun |-> Thrown(""), settled |-> FALSE, response |-> NoResponse,
            result |-> Returned("")]

Init ==
    /\ activeTab = "upload"
    /\ isSettingsOpen = FALSE
    /\ config = DEFAULT_CONFIG
    /\ modalConfig = DEFAULT_CONFIG
    /\ stored = NoStored
    /\ files = <<>>
    /\ textContext = ""
    /\ isProcessingUpload = FALSE
    /\ uploadStatus = NoUploadStatus
    /\ messages = <<>>
    /\ isChatLoading = FALSE
    /\ today = 1
    /\ now = 0
    /\ nextId = 0
    /\ revoked = <<>>
    /\ clearTimers = 0
    /\ uploadReqs = <<>>
    /\ chatReqs = <<>>
    /\ chatLast = NoResponse
    /\ uploadLast = NoResponse
    /\ probe = NoProbe

-----------------------------------------------------------------------------
(* Settings: SettingsModal and the config of App *)

Configs == [ingestionUrl : Urls, chatUrl : Urls]

\* JSON.stringify(config) of a WebhookConfig
ConfigText(c) ==
    "{\"ingestionUrl\":\"" \o c.ingestionUrl \o "\",\"chatUrl\":\"" \o c.chatUrl \o "\"}"

\* what the stored text can hold besides a saved config: a URL saved by an
\* earlier session, null, and objects with a field missing or null
CustomUrl == "https://example.org/webhook/custom"
StoredFieldValues == {JStr(u) : u \in Urls \cup {CustomUrl}} \cup {JNull}
StoredJson ==
    {JNull} \cup {JObj(f) : f \in UNION {[ks -> StoredFieldValues] :
                                 ks \in SUBSET {"ingestionUrl", "chatUrl"}}}

\* JSON.stringify on these values
StoredFieldText(f, name) ==
    IF name \notin DOMAIN f THEN ""
    ELSE "\"" \o name \o "\":" \o (IF f[name].t = "null" THEN "null" ELSE "\"" \o f[name].s \o "\"")
StoredJsonText(v) ==
    IF v.t = "null" THEN "null"
    ELSE "{" \o StoredFieldText(v.f, "ingestionUrl")
             \o (IF DOMAIN v.f = {"ingestionUrl", "chatUrl"} THEN "," ELSE "")
             \o StoredFieldText(v.f, "chatUrl") \o "}"
StoredJsonTexts == {StoredJsonText(v) : v \in StoredJson}
StoredParseTable ==
    [txt \in StoredJsonTexts |-> CHOOSE v \in StoredJson : StoredJsonText(v) = txt]

\* JSON.parse of a stored text
ConfigParse(txt) ==
    IF txt \in StoredJsonTexts THEN [threw |-> FALSE, value |-> StoredParseTable[txt]]
    ELSE [threw |-> TRUE, value |-> JUndefined]

\* parsed.field || DEFAULT_CONFIG.field
OrDefault(parsed, field) ==
    IF Truthy(Prop(parsed, field)) THEN Prop(parsed, field).s ELSE DEFAULT_CONFIG[field]

\* the effect were it to take every stored string as it is
loadConfig_emptyKept(st) ==
    IF ~st.present \/ st.text = "" THEN DEFAULT_CONFIG
    ELSE LET parsed == ConfigParse(st.text) IN
         IF parsed.threw \/ IsNullish(parsed.value) THEN DEFAULT_CONFIG
         ELSE [field \in {"ingestionUrl", "chatUrl"} |->
                  IF Prop(parsed.value, field).t = "string" THEN Prop(parsed.value, field).s
                  ELSE DEFAULT_CONFIG[field]]

\* the effect that loads the config from localStorage: nothing stored, a text
\* JSON.parse throws on, or null (reading a field of it throws inside the try)
\* give DEFAULT_CONFIG
loadConfig(st) ==
    IF ~st.present \/ st.text = "" THEN DEFAULT_CONFIG
    ELSE LET parsed == ConfigParse(st.text) IN
         IF parsed.threw \/ IsNullish(parsed.value) THEN DEFAULT_CONFIG
         ELSE [ingestionUrl |-> OrDefault(parsed.value, "ingestionUrl"),
               chatUrl |-> OrDefault(parsed.value, "chatUrl")]

\* a Settings button: setIsSettingsOpen(true), then the effect on [isOpen]
OpenSettings ==
    /\ ~isSettingsOpen
    /\ isSettingsOpen' = TRUE
    /\ modalConfig' = loadConfig(stored)
    /\ UNCHANGED <<activeTab, config, stored, files, textContext, isProcessingUpload,
                   uploadStatus, messages, isChatLoading, today, now, nextId, revoked,
                   clearTimers, uploadReqs, chatReqs, chatLast, uploadLast, probe>>

\* onClose (the X and Cancel buttons), then the effect on [isOpen]
CloseSettings ==
    /\ isSettingsOpen
    /\ isSettingsOpen' = FALSE
    /\ modalConfig' = loadConfig(stored)
    /\ UNCHANGED <<activeTab, config, stored, files, textContext, isProcessingUpload,
                   uploadStatus, messages, isChatLoading, today, now, nextId, revoked,
                   clearTimers, uploadReqs, chatReqs, chatLast, uploadLast, probe>>

\* onChange of a URL input of the dialog
EditSettings(field, url) ==
    /\ isSettingsOpen
    /\ modalConfig[field] # url
    /\ modalConfig' = [modalConfig EXCEPT ![field] = url]
    /\ UNCHANGED <<activeTab, isSettingsOpen, config, stored, files, textContext,
                   isProcessingUpload, uploadStatus, messages, isChatLoading, today, now, nextId,
                   revoked, clearTimers, uploadReqs, chatReqs, chatLast, uploadLast, probe>>

\* handleSave: setItem, onSave(config), onClose(), then the effect on [isOpen]
handleSave ==
    /\ isSettingsOpen
    /\ stored' = [present |-> TRUE, text |-> ConfigText(modalConfig)]
    /\ config' = modalConfig
    /\ isSettingsOpen' = FALSE
    /\ modalConfig' = loadConfig(stored')
    /\ UNCHANGED <<activeTab, files, textContext, isProcessingUpload, uploadStatus, messages,
                   isChatLoading, today, now, nextId, revoked, clearTimers, uploadReqs, chatReqs,
                   chatLast, uploadLast, probe>>

\* a tab button: setActiveTab(tab)
SetActiveTab(tab) ==
    /\ activeTab # tab
    /\ activeTab' = tab
    /\ UNCHANGED <<isSettingsOpen, config, modalConfig, stored, files, textContext,
                   isProcessingUpload, uploadStatus, messages, isChatLoading, today, now, nextId,
                   revoked, clearTimers, uploadReqs, chatReqs, chatLast, uploadLast, probe>>

\* the calendar day changes
Midnight ==
    /\ today < Len(DateStrings)
    /\ today' = today + 1
    /\ UNCHANGED <<now, activeTab, isSettingsOpen, config, modalConfig, stored, files, textContext,
                   isProcessingUpload, uploadStatus, messages, isChatLoading, nextId,
                   revoked, clearTimers, uploadReqs, chatReqs, chatLast, uploadLast, probe>>

-----------------------------------------------------------------------------
(* Chat: handleSendMessage of App and the send paths of ChatInterface *)

\* String.prototype.includes on the error messages of the model: every message
\* that holds the part holds it between two of these affixes
Affixes == {"", " found in the workflow"}
Includes(str, part) == \E a \in Affixes, b \in Affixes : str = a \o part \o b

Advice == "N8N CONFIG ERROR: Open your N8N Webhook Node and change 'Respond' to 'Using Respond to Webhook Node'."

\* getN8nErrorAdvice were it to give its advice for every error
getN8nErrorAdvice_always(errorMsg) == Advice

\* getN8nErrorAdvice; "" stands for null
getN8nErrorAdvice(errorMsg) ==
    IF Includes(errorMsg, "Unused Respond to Webhook node") THEN Advice ELSE ""

\* newUserMsg; clock is what Date.now() reads in the handler, for the id and
\* for the timestamp alike
UserMessage(clock, text, attachments) ==
    [id |-> NatToString(clock), timestamp |-> clock,
     role |-> "user", content |-> text, isError |-> FALSE,
     attachments |-> [i \in 1..Len(attachments) |->
                        [name |-> attachments[i].name, type |-> attachments[i].type,
                         size |-> attachments[i].size]]]

\* botMsg
BotMessage(clock, responseText) ==
    [id |-> NatToString(clock + 1), timestamp |-> clock,
     role |-> "assistant", content |-> responseText, isError |-> FALSE, attachments |-> <<>>]

\* the message of the catch block with isError left unset
ErrorMessage_unflagged(clock, errorMessage) ==
    [id |-> NatToString(clock + 1), timestamp |-> clock,
     role |-> "assistant",
     content |-> "Error: " \o errorMessage
                 \o (IF getN8nErrorAdvice(errorMessage) # ""
                     THEN "\n\n(!) " \o getN8nErrorAdvice(errorMessage) ELSE ""),
     isError |-> FALSE, attachments |-> <<>>]

\* errorMsg of the catch block, with its displayMsg (the hint is led by a light
\* bulb sign, written (!) here)
ErrorMessage(clock, errorMessage) ==
    [id |-> NatToString(clock + 1), timestamp |-> clock,
     role |-> "assistant",
     content |-> "Error: " \o errorMessage
                 \o (IF getN8nErrorAdvice(errorMessage) # ""
                     THEN "\n\n(!) " \o getN8nErrorAdvice(errorMessage) ELSE ""),
     isError |-> TRUE, attachments |-> <<>>]

\* the updater were it to put the new message first
appendMessage_first(prev, msg) == <<msg>> \o prev

\* the updater of setMessages: prev => [...prev, msg]
appendMessage(prev, msg) == prev \o <<msg>>

UserTurns(log) == Len(SelectSeq(log, LAMBDA m : m.role = "user"))

\* handleSendMessage up to the await of sendChatMessage; when sendChatMessage
\* throws at once the catch and finally blocks run before any other event
handleSendMessage(text, attachments) ==
    LET begun == sendChatMessage(config.chatUrl, text, messages, attachments,
                                 DateStrings[today]) IN
    /\ UserTurns(messages) < MaxTurns
    /\ chatLast' = NoResponse
    /\ IF begun.threw
       THEN /\ messages' = appendMessage(appendMessage(messages,
                                               UserMessage(now, text, attachments)),
                                           ErrorMessage(now, begun.error))
            /\ isChatLoading' = FALSE
            /\ chatReqs' = chatReqs
       ELSE /\ messages' = appendMessage(messages, UserMessage(now, text, attachments))
            /\ isChatLoading' = TRUE
            /\ chatReqs' = chatReqs \o begun.posts
    /\ UNCHANGED <<activeTab, isSettingsOpen, config, modalConfig, stored, files, textContext,
                   isProcessingUpload, uploadStatus, today, now, nextId, revoked, clearTimers,
                   uploadReqs, uploadLast, probe>>

\* what the user can type and attach in the chat form (the text is trimmed)
ChatTexts == {"", "hi"}
ChatAttachments == {fs \in FileLists : Len(fs) <= 1 /\ \A i \in 1..Len(fs) : fs[i].size = 10}

\* the send guard of the form that does not look at isLoading
canSubmit_ignoringLoading(input, attachedFiles, isLoading) ==
    ~(input = "" /\ attachedFiles = <<>>)

\* the guard of handleSubmit: there is something to send and no turn is pending
canSubmit(input, attachedFiles, isLoading) ==
    ~((input = "" /\ attachedFiles = <<>>) \/ isLoading)

\* ChatInterface were it to show the form whatever the chat URL
hasConfig_always == TRUE

\* ChatInterface shows the conversation only with a chat URL configured
hasConfig == config.chatUrl # ""

\* handleSubmit of the chat form
handleSubmit(input, attachedFiles) ==
    /\ activeTab = "chat"
    /\ hasConfig
    /\ canSubmit(input, attachedFiles, isChatLoading)
    /\ handleSendMessage(input, attachedFiles)

\* the sample-question buttons were they shown whatever the log holds
SampleQuestion_anyLog(i) ==
    /\ activeTab = "chat"
    /\ hasConfig
    /\ handleSendMessage(SAMPLE_QUESTIONS[i], <<>>)

\* a sample-question button, shown while the log is empty
SampleQuestion(i) ==
    /\ activeTab = "chat"
    /\ hasConfig
    /\ messages = <<>>
    /\ handleSendMessage(SAMPLE_QUESTIONS[i], <<>>)

RemoveAt(seq, k) == [i \in 1..(Len(seq) - 1) |-> IF i < k THEN seq[i] ELSE seq[i + 1]]

\* the responses the webhooks of a run answer with
AppResponses ==
    {Rejection,
     ResponseOf(200, ""),
     ResponseOf(200, "plain text"),
     ResponseOf(200, "{\"output\":\"hello\"}"),
     ResponseOf(500, "Internal Server Error"),
     ResponseOf(500, "{\"message\":\"" \o UnusedRespondError \o "\"}")}

\* the k-th outstanding chat fetch settles: handleSendMessage from its await on
ChatSettle(k, response) ==
    /\ k \in 1..Len(chatReqs)
    /\ LET result == chatSettle(response) IN
       messages' = appendMessage(messages, IF result.threw THEN ErrorMessage(now, result.error)
                                           ELSE BotMessage(now, result.value))
    /\ isChatLoading' = FALSE
    /\ chatReqs' = RemoveAt(chatReqs, k)
    /\ chatLast' = response
    /\ UNCHANGED <<activeTab, isSettingsOpen, config, modalConfig, stored, files, textContext,
                   isProcessingUpload, uploadStatus, today, now, nextId, revoked, clearTimers,
                   uploadReqs, uploadLast, probe>>

\* a millisecond passes
Tick ==
    /\ now < MaxClock
    /\ now' = now + 1
    /\ UNCHANGED <<activeTab, isSettingsOpen, config, modalConfig, stored, files, textContext,
                   isProcessingUpload, uploadStatus, messages, isChatLoading, today, nextId,
                   revoked, clearTimers, uploadReqs, chatReqs, chatLast, uploadLast, probe>>

\* the steps of the settings dialog and the tabs, with the fields the user edits
SettingsNext(fields) ==
    \/ OpenSettings
    \/ CloseSettings
    \/ \E field \in fields, url \in Urls : EditSettings(field, url)
    \/ handleSave
    \/ \E tab \in {"upload", "chat"} : SetActiveTab(tab)

ChatNext ==
    \/ SettingsNext({"chatUrl"})
    \/ \E input \in ChatTexts, fs \in ChatAttachments : handleSubmit(input, fs)
    \/ \E i \in 1..Len(SAMPLE_QUESTIONS) : SampleQuestion(i)
    \/ \E k \in 1..MaxTurns, r \in AppResponses : ChatSettle(k, r)
    \/ Tick

\* the chat side of the application: App with the upload tab left alone
ChatSpec == Init /\ [][ChatNext]_vars

\* every request that was issued is answered or fails
ChatFairSpec == ChatSpec /\ WF_vars(\E k \in 1..MaxTurns, r \in AppResponses : ChatSettle(k, r))

-----------------------------------------------------------------------------
(* Upload: FileUploader and handleUpload of App *)

\* String.prototype.startsWith on a MIME type: the type is the prefix and a subtype
MimeSubtypes == {"png", "jpeg", "webp", "pdf", "plain", "mpeg", "wav", "mp4", "webm"}
StartsWith(str, prefix) == \E rest \in MimeSubtypes : str = prefix \o rest

\* getFileType
getFileType(file) ==
    IF StartsWith(file.type, "image/") THEN "image"
    ELSE IF StartsWith(file.type, "video/") THEN "video"
    ELSE IF StartsWith(file.type, "audio/") THEN "audio"
    ELSE "document"

\* URL.createObjectURL: a URL no other call returns; n numbers the item
ObjectURL(n) == "blob:" \o NatToString(n)

\* the FileUploadItem handleFiles makes of the n-th file selected in the run; the
\* ids Math.random gives are taken to differ; previewUrl "" stands for undefined
NewItem(file, n) ==
    [id |-> n, file |-> file, type |-> getFileType(file),
     previewUrl |-> IF StartsWith(file.type, "image/") THEN ObjectURL(n) ELSE "",
     status |-> "pending"]

\* handleFiles were it to put the new items first
handleFiles_first(incomingFiles) ==
    /\ Len(files) + Len(incomingFiles) <= MaxFiles
    /\ nextId + Len(incomingFiles) <= MaxItems
    /\ files' = [i \in 1..Len(incomingFiles) |-> NewItem(incomingFiles[i], nextId + i)] \o files
    /\ nextId' = nextId + Len(incomingFiles)
    /\ UNCHANGED <<activeTab, isSettingsOpen, config, modalConfig, stored, textContext,
                   isProcessingUpload, uploadStatus, messages, isChatLoading, today, now, revoked,
                   clearTimers, uploadReqs, chatReqs, chatLast, uploadLast, probe>>

\* handleFiles: setFiles(prev => [...prev, ...newFiles])
handleFiles(incomingFiles) ==
    /\ Len(files) + Len(incomingFiles) <= MaxFiles
    /\ nextId + Len(incomingFiles) <= MaxItems
    /\ files' = files \o [i \in 1..Len(incomingFiles) |-> NewItem(incomingFiles[i], nextId + i)]
    /\ nextId' = nextId + Len(incomingFiles)
    /\ UNCHANGED <<activeTab, isSettingsOpen, config, modalConfig, stored, textContext,
                   isProcessingUpload, uploadStatus, messages, isChatLoading, today, now, revoked,
                   clearTimers, uploadReqs, chatReqs, chatLast, uploadLast, probe>>

\* handleDrop: files are dropped on the drop zone
handleDrop(incomingFiles) ==
    /\ activeTab = "upload"
    /\ ~isProcessingUpload
    /\ handleFiles(incomingFiles)

\* onChange of the file input, which is disabled while isProcessing
FileInputChange(incomingFiles) ==
    /\ activeTab = "upload"
    /\ ~isProcessingUpload
    /\ handleFiles(incomingFiles)

\* the updater handleRemove gives setFiles: prev.find, revokeObjectURL, prev.filter
removeItem(id) ==
    LET found == SelectSeq(files, LAMBDA f : f.id = id) IN
    /\ revoked' = IF found # <<>> /\ found[1].previewUrl # ""
                  THEN Append(revoked, found[1].previewUrl) ELSE revoked
    /\ files' = SelectSeq(files, LAMBDA f : f.id # id)

\* handleRemove were the X button shown on an item of any status
handleRemove_anyStatus(id) ==
    /\ activeTab = "upload"
    /\ \E i \in 1..Len(files) : files[i].id = id
    /\ removeItem(id)
    /\ UNCHANGED <<activeTab, isSettingsOpen, config, modalConfig, stored, textContext,
                   isProcessingUpload, uploadStatus, messages, isChatLoading, today, now, nextId,
                   clearTimers, uploadReqs, chatReqs, chatLast, uploadLast, probe>>

\* handleRemove, from the X button an item shows while it is pending
handleRemove(id) ==
    /\ activeTab = "upload"
    /\ \E i \in 1..Len(files) : files[i].id = id /\ files[i].status = "pending"
    /\ removeItem(id)
    /\ UNCHANGED <<activeTab, isSettingsOpen, config, modalConfig, stored, textContext,
                   isProcessingUpload, uploadStatus, messages, isChatLoading, today, now, nextId,
                   clearTimers, uploadReqs, chatReqs, chatLast, uploadLast, probe>>

\* what the user can type as text context, and String.prototype.trim on it
TextContexts == {"", " ", "ctx"}
Trim(text) == IF text = " " THEN "" ELSE text

\* onChange of the text context, which is disabled while isProcessingUpload
SetTextContext(text) ==
    /\ activeTab = "upload"
    /\ ~isProcessingUpload
    /\ textContext # text
    /\ textContext' = text
    /\ UNCHANGED <<activeTab, isSettingsOpen, config, modalConfig, stored, files,
                   isProcessingUpload, uploadStatus, messages, isChatLoading, today, now, nextId,
                   revoked, clearTimers, uploadReqs, chatReqs, chatLast, uploadLast, probe>>

\* prev.map(f => ({...f, status})) applied to the first item alone
withStatus_firstOnly(prev, status) ==
    [i \in 1..Len(prev) |-> IF i = 1 THEN [prev[i] EXCEPT !.status = status] ELSE prev[i]]

\* prev.map(f => ({...f, status}))
withStatus(prev, status) == [i \in 1..Len(prev) |-> [prev[i] EXCEPT !.status = status]]

\* the uploadStatus of the catch block, with its displayMsg
FailureStatus(errorMessage) ==
    [set |-> TRUE, success |-> FALSE,
     message |-> IF getN8nErrorAdvice(errorMessage) # ""
                 THEN errorMessage \o "\n\nFIX: " \o getN8nErrorAdvice(errorMessage)
                 ELSE "Failed to upload: " \o errorMessage]
SuccessStatus ==
    [set |-> TRUE, success |-> TRUE, message |-> "Success! Files and prompt sent to N8N."]

\* the button were it to stay enabled while a submit is under way
uploadDisabled_ignoringProcessing == files = <<>> /\ Trim(textContext) = ""

\* the Send to N8N button is disabled
uploadDisabled == isProcessingUpload \/ (files = <<>> /\ Trim(textContext) = "")

\* handleUpload up to the await of uploadFilesToWebhook; when uploadFilesToWebhook
\* throws at once the catch and finally blocks run before any other event
handleUpload ==
    /\ activeTab = "upload"
    /\ ~uploadDisabled
    /\ ~(files = <<>> /\ Trim(textContext) = "")
    /\ IF config.ingestionUrl = ""
       THEN /\ isSettingsOpen' = TRUE
            /\ modalConfig' = IF isSettingsOpen THEN modalConfig ELSE loadConfig(stored)
            /\ UNCHANGED <<files, isProcessingUpload, uploadStatus, uploadReqs>>
       ELSE LET begun == uploadFilesToWebhook(config.ingestionUrl,
                             [i \in 1..Len(files) |-> files[i].file], JStr(textContext),
                             DateStrings[today]) IN
            /\ clearTimers + Len(uploadReqs) < MaxSubmits
            /\ IF begun.threw
               THEN /\ files' = withStatus(withStatus(files, "uploading"), "error")
                    /\ uploadStatus' = FailureStatus(begun.error)
                    /\ isProcessingUpload' = FALSE
                    /\ uploadReqs' = uploadReqs
               ELSE /\ files' = withStatus(files, "uploading")
                    /\ uploadStatus' = NoUploadStatus
                    /\ isProcessingUpload' = TRUE
                    /\ uploadReqs' = uploadReqs \o begun.posts
            /\ UNCHANGED <<isSettingsOpen, modalConfig>>
    /\ uploadLast' = NoResponse
    /\ UNCHANGED <<activeTab, config, stored, textContext, messages, isChatLoading, today, now,
                   nextId, revoked, clearTimers, chatReqs, chatLast, probe>>

\* the k-th outstanding ingestion fetch settles: handleUpload from its await on
UploadSettle(k, response) ==
    /\ k \in 1..Len(uploadReqs)
    /\ LET result == uploadSettle(response) IN
       IF result.threw
       THEN /\ files' = withStatus(files, "error")
            /\ uploadStatus' = FailureStatus(result.error)
            /\ clearTimers' = clearTimers
       ELSE /\ files' = withStatus(files, "success")
            /\ uploadStatus' = SuccessStatus
            /\ clearTimers' = clearTimers + 1
    /\ isProcessingUpload' = FALSE
    /\ uploadReqs' = RemoveAt(uploadReqs, k)
    /\ uploadLast' = response
    /\ UNCHANGED <<activeTab, isSettingsOpen, config, modalConfig, stored, textContext,
                   messages, isChatLoading, today, now, nextId, revoked, chatReqs, chatLast, probe>>

\* the callback were it to leave the text context as it is
ClearTimerFires_keepsText ==
    /\ clearTimers > 0
    /\ clearTimers' = clearTimers - 1
    /\ files' = <<>>
    /\ uploadStatus' = NoUploadStatus
    /\ UNCHANGED <<activeTab, isSettingsOpen, config, modalConfig, stored, textContext,
                   isProcessingUpload, messages, isChatLoading, today, now, nextId, revoked,
                   uploadReqs, chatReqs, chatLast, uploadLast, probe>>

\* a callback that handleUpload scheduled with setTimeout runs
ClearTimerFires ==
    /\ clearTimers > 0
    /\ clearTimers' = clearTimers - 1
    /\ files' = <<>>
    /\ textContext' = ""
    /\ uploadStatus' = NoUploadStatus
    /\ UNCHANGED <<activeTab, isSettingsOpen, config, modalConfig, stored,
                   isProcessingUpload, messages, isChatLoading, today, now, nextId, revoked,
                   uploadReqs, chatReqs, chatLast, uploadLast, probe>>

\* the responses the ingestion webhook of a run answers with
UploadResponses ==
    {r \in AppResponses : r.type = "reject" \/ r.text \notin {"plain text", "{\"output\":\"hello\"}"}}

UploadNext ==
    \/ SettingsNext({"ingestionUrl"})
    \/ \E fs \in FileLists : handleDrop(fs)
    \/ \E fs \in FileLists : FileInputChange(fs)
    \/ \E id \in 1..MaxItems : handleRemove(id)
    \/ \E text \in TextContexts : SetTextContext(text)
    \/ handleUpload
    \/ \E k \in 1..MaxSubmits, r \in UploadResponses : UploadSettle(k, r)
    \/ ClearTimerFires

\* the upload side of the application: App with the chat tab left alone
UploadSpec == Init /\ [][UploadNext]_vars

\* the upload side, with every scheduled setTimeout callback run in the end
UploadFairSpec == UploadSpec /\ WF_vars(ClearTimerFires)

\* the two failure paths of App side by side: one chat text and single files,
\* each webhook answering with any response
FailureNext ==
    \/ \E tab \in {"upload", "chat"} : SetActiveTab(tab)
    \/ handleSubmit("hi", <<>>)
    \/ \E r \in AppResponses : ChatSettle(1, r)
    \/ \E fs \in FileLists : Len(fs) = 1 /\ handleDrop(fs)
    \/ handleUpload
    \/ \E r \in AppResponses : UploadSettle(1, r)
    \/ ClearTimerFires

FailureSpec == Init /\ [][FailureNext]_vars

\* the application with its URLs set and unset in the settings dialog: one chat
\* text, one file, webhooks that answer 200 with an empty body
UnsetNext ==
    \/ SettingsNext({"ingestionUrl", "chatUrl"})
    \/ handleSubmit("hi", <<>>)
    \/ SampleQuestion(1)
    \/ ChatSettle(1, ResponseOf(200, ""))
    \/ handleDrop(<<CHOOSE f \in FilePool : f.name = "b.pdf">>)
    \/ handleUpload
    \/ UploadSettle(1, ResponseOf(200, ""))
    \/ ClearTimerFires

UnsetSpec == Init /\ [][UnsetNext]_vars

\* the ways a request of an event run resolves: fetch rejects, the webhook
\* answers 200 with an empty body, or it answers 500 with the n8n diagnostic;
\* the chat webhook can also answer 200 with a reply
EventResponses ==
    {Rejection,
     ResponseOf(200, ""),
     ResponseOf(500, "{\"message\":\"" \o UnusedRespondError \o "\"}")}
ChatEventResponses == EventResponses \cup {ResponseOf(200, "{\"output\":\"hello\"}")}

\* the file of an event run
EventFile == <<CHOOSE f \in FilePool : f.name = "b.pdf">>

\* the events that start or resolve a request and those that can happen in
\* between, side by side: the settings dialog and the tabs, the chat form and
\* a sample question, the text context, a drop or a pick of one document,
\* removals, Send to N8N, each request resolving in any of the ways above, and
\* the clear timer. Left to ChatSpec and UploadSpec: attachments in the chat
\* form, the other sample questions, images and drops of several files, and
\* the clock
EventsNext ==
    \/ SettingsNext({"ingestionUrl", "chatUrl"})
    \/ handleSubmit("hi", <<>>)
    \/ SampleQuestion(1)
    \/ \E k \in 1..MaxTurns, r \in ChatEventResponses : ChatSettle(k, r)
    \/ handleDrop(EventFile)
    \/ FileInputChange(EventFile)
    \/ \E id \in 1..MaxItems : handleRemove(id)
    \/ \E text \in {"", "ctx"} : SetTextContext(text)
    \/ handleUpload
    \/ \E k \in 1..MaxSubmits, r \in EventResponses : UploadSettle(k, r)
    \/ ClearTimerFires

EventsSpec == Init /\ [][EventsNext]_vars

\* what localStorage can hold under the key when the page is opened
InitialStores ==
    {NoStored} \cup {[present |-> TRUE, text |-> t] : t \in StoredJsonTexts \cup {"", "not json"}}

\* the page opened on any stored text, once the loading effects of App and of
\* SettingsModal have run
SettingsInit ==
    /\ stored \in InitialStores
    /\ config = loadConfig(stored)
    /\ modalConfig = loadConfig(stored)
    /\ activeTab = "upload"
    /\ isSettingsOpen = FALSE
    /\ files = <<>>
    /\ textContext = ""
    /\ isProcessingUpload = FALSE
    /\ uploadStatus = NoUploadStatus
    /\ messages = <<>>
    /\ isChatLoading = FALSE
    /\ today = 1
    /\ now = 0
    /\ nextId = 0
    /\ revoked = <<>>
    /\ clearTimers = 0
    /\ uploadReqs = <<>>
    /\ chatReqs = <<>>
    /\ chatLast = NoResponse
    /\ uploadLast = NoResponse
    /\ probe = NoProbe

\* the settings of the application: the dialog and the tabs alone
SettingsSpec == SettingsInit /\ [][SettingsNext({"ingestionUrl", "chatUrl"})]_vars

\* the whole application
Next ==
    \/ SettingsNext({"ingestionUrl", "chatUrl"})
    \/ Midnight
    \/ Tick
    \/ \E input \in ChatTexts, fs \in ChatAttachments : handleSubmit(input, fs)
    \/ \E i \in 1..Len(SAMPLE_QUESTIONS) : SampleQuestion(i)
    \/ \E k \in 1..MaxTurns, r \in AppResponses : ChatSettle(k, r)
    \/ \E fs \in FileLists : handleDrop(fs)
    \/ \E fs \in FileLists : FileInputChange(fs)
    \/ \E id \in 1..MaxItems : handleRemove(id)
    \/ \E text \in TextContexts : SetTextContext(text)
    \/ handleUpload
    \/ \E k \in 1..MaxSubmits, r \in AppResponses : UploadSettle(k, r)
    \/ ClearTimerFires

Spec == Init /\ [][Next]_vars

-----------------------------------------------------------------------------
(* Direct calls of the transport operations: one call in a run, with any      *)
(* arguments, settled with any response                                       *)

ProbeTexts == {"", "hi"}
\* the optional textContext argument: left out, or a string
ProbeContexts == {JUndefined} \cup {JStr(t) : t \in ProbeTexts}
ProbeHistories == {<<>>, <<[role |-> "user", content |-> "hi"],
                          [role |-> "assistant", content |-> "hello"]>>}

\* sendChatMessage(url, message, history, files) is called
ProbeChat(url, message, history, fs, d) ==
    /\ probe.op = "none"
    /\ probe' = [op |-> "chat", url |-> url, day |-> d, message |-> message,
                 context |-> JUndefined,
                 history |-> history,
                 files |-> fs, begun |-> sendChatMessage(url, message, history, fs, DateStrings[d]),
                 settled |-> FALSE, response |-> NoResponse, result |-> Returned("")]
    /\ UNCHANGED appVars

\* uploadFilesToWebhook(url, files, textContext) is called
ProbeUpload(url, fs, text, d) ==
    /\ probe.op = "none"
    /\ probe' = [op |-> "upload", url |-> url, day |-> d, message |-> "", context |-> text,
                 history |-> <<>>,
                 files |-> fs, begun |-> uploadFilesToWebhook(url, fs, text, DateStrings[d]),
                 settled |-> FALSE, response |-> NoResponse, result |-> Returned("")]
    /\ UNCHANGED appVars

\* the fetch of the call settles and the operation runs to its end
ProbeSettle(response) ==
    /\ probe.op # "none"
    /\ ~probe.begun.threw
    /\ ~probe.settled
    /\ probe' = [probe EXCEPT !.settled = TRUE, !.response = response,
                              !.result = IF probe.op = "chat" THEN chatSettle(response)
                                         ELSE uploadSettle(response)]
    /\ UNCHANGED appVars

TransportNext ==
    \/ \E url \in Urls, m \in ProbeTexts, h \in ProbeHistories, fs \in FileLists,
          d \in DOMAIN DateStrings : ProbeChat(url, m, h, fs, d)
    \/ \E url \in Urls, fs \in FileLists, t \in ProbeContexts, d \in DOMAIN DateStrings :
          ProbeUpload(url, fs, t, d)
    \/ \E r \in Responses : ProbeSettle(r)

TransportSpec == Init /\ [][TransportNext]_vars

-----------------------------------------------------------------------------
(* Properties of the transport operations (TransportSpec) *)

ConfigErrorOf(op) ==
    IF op = "chat" THEN "Chat Webhook URL is not configured."
    ELSE "Ingestion Webhook URL is not configured."

\* C1: a transport operation called with an empty URL throws its configuration
\* error at once and issues no request; no POST ever goes to an empty URL.
C1_EmptyUrlFailsWithoutRequest ==
    /\ (probe.op # "none" /\ probe.url = "") =>
          /\ probe.begun.threw
          /\ probe.begun.error = ConfigErrorOf(probe.op)
          /\ probe.begun.posts = <<>>
    /\ \A i \in 1..Len(probe.begun.posts) : probe.begun.posts[i].url # ""
    /\ \A i \in 1..Len(chatReqs) : chatReqs[i].url # ""
    /\ \A i \in 1..Len(uploadReqs) : uploadReqs[i].url # ""

C1_Witness ==
    /\ probe.op = "chat"
    /\ probe.url = ""
    /\ probe.begun.threw
    /\ probe.files # <<>>

\* the settled call got a response with a status that is not a success
ProbeFailedStatus ==
    /\ probe.settled
    /\ probe.response.type = "response"
    /\ ~Ok(probe.response)

\* the settled chat call got a response with a success status
ProbeChatSuccess ==
    /\ probe.op = "chat"
    /\ probe.settled
    /\ probe.response.type = "response"
    /\ Ok(probe.response)

ProbeParsed == JSONparse(probe.response.text)
HasField(v, name) == v.t = "object" /\ name \in DOMAIN v.f

\* C6 as claimed: a body that is not JSON, or is JSON without an errorMessage or
\* message field, makes the failure message the status text.
C6_StatusTextWithoutField ==
    (/\ ProbeFailedStatus
     /\ \/ ProbeParsed.threw
        \/ /\ ~HasField(ProbeParsed.value, "errorMessage")
           /\ ~HasField(ProbeParsed.value, "message"))
    => (probe.result.threw /\ probe.result.error = probe.response.statusText)

\* C6, amended: the failure message is the status text when the body is not
\* JSON or is the JSON null; when the body is any other JSON value without a
\* truthy errorMessage or message, it is the serialisation of that value.
C6_StatusTextOrSerialisation ==
    ProbeFailedStatus =>
        /\ probe.result.threw
        /\ (ProbeParsed.threw \/ ProbeParsed.value.t = "null")
              => probe.result.error = probe.response.statusText
        /\ (/\ ~ProbeParsed.threw
            /\ ProbeParsed.value.t # "null"
            /\ ~Truthy(Prop(ProbeParsed.value, "errorMessage"))
            /\ ~Truthy(Prop(ProbeParsed.value, "message")))
              => probe.result.error = JSONstringify(ProbeParsed.value)

C6_Witness ==
    /\ ProbeFailedStatus
    /\ probe.op = "chat"
    /\ probe.response.text = "{\"code\":\"hello\"}"
    /\ probe.result.error = "{\"code\":\"hello\"}"

\* C7 as claimed: for a JSON object the failure message is the value of the
\* first candidate field that is present, errorMessage before message.
C7_FirstPresentField ==
    (/\ ProbeFailedStatus
     /\ ~ProbeParsed.threw
     /\ ProbeParsed.value.t = "object"
     /\ HasField(ProbeParsed.value, "errorMessage") \/ HasField(ProbeParsed.value, "message"))
    => probe.result.error =
          ToText(IF HasField(ProbeParsed.value, "errorMessage")
                 THEN ProbeParsed.value.f["errorMessage"]
                 ELSE ProbeParsed.value.f["message"])

\* C7, amended: for a JSON object the failure message is the value of the first
\* candidate field whose value is truthy (not empty, not null), errorMessage
\* before message; a field that is present but empty or null is passed over.
C7_FirstTruthyField ==
    (/\ ProbeFailedStatus
     /\ ~ProbeParsed.threw
     /\ ProbeParsed.value.t = "object")
    => /\ Truthy(Prop(ProbeParsed.value, "errorMessage"))
            => probe.result.error = ProbeParsed.value.f["errorMessage"].s
       /\ (/\ ~Truthy(Prop(ProbeParsed.value, "errorMessage"))
           /\ Truthy(Prop(ProbeParsed.value, "message")))
            => probe.result.error = ProbeParsed.value.f["message"].s

C7_Witness ==
    /\ ProbeFailedStatus
    /\ probe.op = "upload"
    /\ probe.response.text = "{\"errorMessage\":\"bad node config\",\"message\":\"hello\"}"
    /\ probe.result.error = "bad node config"

\* the first of output, text, message that the object has
FirstPresentReplyField(v) ==
    IF HasField(v, "output") THEN v.f["output"]
    ELSE IF HasField(v, "text") THEN v.f["text"]
    ELSE v.f["message"]

\* C8 as claimed: the reply is the value of the first of output, text, message
\* the object has; the serialised object when it has none; a bare string itself.
C8_FirstPresentReplyField ==
    (ProbeChatSuccess /\ ~ProbeParsed.threw) =>
        /\ (/\ ProbeParsed.value.t = "object"
            /\ \E k \in {"output", "text", "message"} : HasField(ProbeParsed.value, k))
              => probe.result.value = ToText(FirstPresentReplyField(ProbeParsed.value))
        /\ (/\ ProbeParsed.value.t = "object"
            /\ \A k \in {"output", "text", "message"} : ~HasField(ProbeParsed.value, k))
              => probe.result.value = JSONstringify(ProbeParsed.value)
        /\ ProbeParsed.value.t = "string" => probe.result.value = ProbeParsed.value.s

\* the first of output, text, message whose value is truthy
FirstTruthyReplyField(v) ==
    IF Truthy(Prop(v, "output")) THEN v.f["output"]
    ELSE IF Truthy(Prop(v, "text")) THEN v.f["text"]
    ELSE v.f["message"]

\* C8, amended: for an object the reply is the value of the first of output,
\* text, message whose value is truthy (not empty, not null), and the serialised
\* object when no candidate is truthy; for a bare JSON string, the empty one
\* included, the reply is that string itself.
C8_FirstTruthyReplyField ==
    (ProbeChatSuccess /\ ~ProbeParsed.threw) =>
        /\ ~probe.result.threw
        /\ (/\ ProbeParsed.value.t = "object"
            /\ \E k \in {"output", "text", "message"} : Truthy(Prop(ProbeParsed.value, k)))
              => probe.result.value = FirstTruthyReplyField(ProbeParsed.value).s
        /\ (/\ ProbeParsed.value.t = "object"
            /\ \A k \in {"output", "text", "message"} : ~Truthy(Prop(ProbeParsed.value, k)))
              => probe.result.value = JSONstringify(ProbeParsed.value)
        /\ ProbeParsed.value.t = "string" => probe.result.value = ProbeParsed.value.s

C8_Witness ==
    /\ ProbeChatSuccess
    /\ probe.response.text = "{\"output\":\"hello\",\"text\":\"bad node config\"}"
    /\ probe.result.value = "hello"

\* the parts of a body that carry a file, and those named name
BinaryParts(body) == SelectSeq(body, LAMBDA p : p.kind = "file")
PartsNamed(body, name) == SelectSeq(body, LAMBDA p : p.name = name)

\* the body of the request a direct call issued
ProbeBody == probe.begun.posts[1].body

\* C10: the body holds one binary part per file, keyed file_0 .. file_(N-1) in
\* selection order with pairwise distinct keys, one file_metadata part per file
\* whose key is that of the file's binary part and whose name, type and size
\* are the file's, and one file_count part holding N.
C10_FilePartsMatchFiles ==
    (probe.op # "none" /\ ~probe.begun.threw) =>
        LET n == Len(probe.files)
            bin == BinaryParts(ProbeBody)
            meta == PartsNamed(ProbeBody, "file_metadata")
            count == PartsNamed(ProbeBody, "file_count") IN
        /\ Len(probe.begun.posts) = 1
        /\ Len(bin) = n
        /\ Len(meta) = n
        /\ \A i \in 1..n :
              /\ bin[i].name = "file_" \o Digits[i]
              /\ bin[i].file = probe.files[i]
              /\ meta[i].kind = "text"
              /\ meta[i].value =
                    "{\"name\":\"" \o probe.files[i].name
                    \o "\",\"type\":\"" \o probe.files[i].type
                    \o "\",\"size\":" \o NatToString(probe.files[i].size)
                    \o ",\"key\":\"" \o bin[i].name \o "\"}"
        /\ \A i, j \in 1..n : i # j => bin[i].name # bin[j].name
        /\ \A i \in 1..Len(ProbeBody) :
              ProbeBody[i].kind = "file" \/ ProbeBody[i].name \notin {bin[k].name : k \in 1..n}
        /\ Len(count) = 1
        /\ count[1].kind = "text"
        /\ count[1].value = Digits[n + 1]

C10_Witness ==
    /\ probe.op = "upload"
    /\ ~probe.begun.threw
    /\ Len(probe.files) = MaxFiles
    /\ probe.files[1] # probe.files[MaxFiles]

-----------------------------------------------------------------------------
(* Properties of the conversation (ChatSpec, ChatFairSpec) *)

LastMessage == messages[Len(messages)]
LastIsUser == messages # <<>> /\ LastMessage.role = "user"

\* user and assistant messages take turns, a user message first
Alternates ==
    \A i \in 1..Len(messages) :
        messages[i].role = (IF i % 2 = 1 THEN "user" ELSE "assistant")

\* C2: the log alternates user, assistant, user, ...; the loading flag is set
\* exactly while the last message is a user message; and every user message is
\* followed by its one assistant message, given that requests are answered.
C2_OneReplyPerUserMessage ==
    /\ [](Alternates /\ (isChatLoading <=> LastIsUser))
    /\ \A n \in 0..(MaxTurns - 1) :
          (Len(messages) = 2 * n + 1) ~> (Len(messages) = 2 * n + 2)

C2_Witness ==
    /\ Len(messages) = 2 * MaxTurns
    /\ Alternates
    /\ ~isChatLoading
    /\ messages[2].isError
    /\ ~LastMessage.isError

\* a response that makes a chat turn fail
IsFailure(response) == response.type = "reject" \/ (response.type = "response" /\ ~Ok(response))

\* C3: a step in which a chat turn fails appends exactly one assistant message
\* flagged isError whose content holds the normalised error text, under the
\* user message of the turn, and changes no message that was in the log.
C3_FailedTurnAppendsOneError ==
    [][/\ (Len(chatReqs') < Len(chatReqs) /\ IsFailure(chatLast')) =>
             /\ Len(messages') = Len(messages) + 1
             /\ SubSeq(messages', 1, Len(messages)) = messages
             /\ LastIsUser
             /\ messages'[Len(messages')].role = "assistant"
             /\ messages'[Len(messages')].isError
             /\ \E hint \in {"", "\n\n(!) " \o Advice} :
                   messages'[Len(messages')].content
                      = "Error: " \o chatSettle(chatLast').error \o hint
       /\ (Len(chatReqs') = Len(chatReqs) /\ Len(messages') > Len(messages)) =>
             /\ Len(messages') = Len(messages) + 2
             /\ SubSeq(messages', 1, Len(messages)) = messages
             /\ messages'[Len(messages) + 1].role = "user"
             /\ messages'[Len(messages')].role = "assistant"
             /\ messages'[Len(messages')].isError
             /\ messages'[Len(messages')].content = "Error: " \o ConfigErrorOf("chat")
      ]_vars

C3_Witness ==
    /\ chatLast = Rejection
    /\ Len(messages) = 2 * MaxTurns
    /\ LastMessage.isError
    /\ LastMessage.content = "Error: Failed to fetch"
    /\ messages[Len(messages) - 1].role = "user"

\* C9: a success response whose body is not JSON, the empty body included, ends
\* the turn with a reply that is the body text as it came, appended as an
\* assistant message that is not flagged as an error.
C9_RawBodyIsTheReply ==
    (/\ chatLast.type = "response"
     /\ Ok(chatLast)
     /\ chatLast.text \notin JsonTexts)
    => /\ messages # <<>>
       /\ LastMessage.role = "assistant"
       /\ ~LastMessage.isError
       /\ LastMessage.content = chatLast.text

C9_Witness ==
    /\ chatLast = ResponseOf(200, "")
    /\ LastMessage.role = "assistant"
    /\ LastMessage.content = ""
    /\ ~LastMessage.isError
    /\ ~isChatLoading

-----------------------------------------------------------------------------
(* Properties of the upload queue (UploadSpec) *)

\* the status changes the lifecycle pending -> uploading -> {success, error} allows
Forward(from, to) ==
    \/ from = to
    \/ from = "pending" /\ to = "uploading"
    \/ from = "uploading" /\ to \in {"success", "error"}

\* C4: an item that stays in the queue changes status only along pending ->
\* uploading -> {success, error}; an item in success or error keeps its status.
C4_StatusOnlyMovesForward ==
    [][\A i \in 1..Len(files), j \in 1..Len(files') :
          files'[j].id = files[i].id => Forward(files[i].status, files'[j].status)]_vars

AllStatus(queue, status) == \A i \in 1..Len(queue) : queue[i].status = status
SameItems(old, new) ==
    /\ Len(new) = Len(old)
    /\ \A i \in 1..Len(old) : new[i].id = old[i].id /\ new[i].file = old[i].file

\* C5: a submit with an ingestion URL configured puts every item of the queue in
\* uploading in one step and issues one request that carries the files of the
\* queue in queue order; the step in which that request settles puts every
\* item of the queue in success, or every item in error; and at no time do two
\* items of the queue hold different outcomes.
C5_BatchMovesTogether ==
    /\ [][/\ Len(uploadReqs') > Len(uploadReqs) =>
                /\ config.ingestionUrl # ""
                /\ Len(uploadReqs') = Len(uploadReqs) + 1
                /\ uploadReqs'[Len(uploadReqs')].url = config.ingestionUrl
                /\ SameItems(files, files')
                /\ AllStatus(files', "uploading")
                /\ LET sent == BinaryParts(uploadReqs'[Len(uploadReqs')].body) IN
                   /\ Len(sent) = Len(files)
                   /\ \A i \in 1..Len(files) : sent[i].file = files[i].file
          /\ Len(uploadReqs') < Len(uploadReqs) =>
                /\ SameItems(files, files')
                /\ IF IsFailure(uploadLast') THEN AllStatus(files', "error")
                   ELSE AllStatus(files', "success")
         ]_vars
    /\ [](\A i, j \in 1..Len(files) :
             (files[i].status \in {"success", "error"} /\ files[j].status \in {"success", "error"})
                => files[i].status = files[j].status)

C5_Witness ==
    /\ Len(files) = MaxFiles
    /\ AllStatus(files, "error")
    /\ files[1].file # files[MaxFiles].file
    /\ uploadLast = ResponseOf(500, "Internal Server Error")
    /\ uploadReqs = <<>>

-----------------------------------------------------------------------------
(* Further properties of the request bodies (TransportSpec) *)

\* the text a direct call was given: the chat message, or the text context,
\* which counts as the empty string when it was left out
ProbeGivenText == IF probe.op = "chat" THEN probe.message
                  ELSE IF probe.context.t = "string" THEN probe.context.s ELSE ""

\* C11: a request body holds exactly one part named message and exactly one
\* named chatInput; both carry the same value, the chat text or the ingestion
\* text context, which is the empty string when no context is given.
C11_MessageAndChatInputAgree ==
    (probe.op # "none" /\ ~probe.begun.threw) =>
        LET msg == PartsNamed(ProbeBody, "message")
            input == PartsNamed(ProbeBody, "chatInput") IN
        /\ Len(msg) = 1
        /\ Len(input) = 1
        /\ msg[1].kind = "text"
        /\ input[1].kind = "text"
        /\ msg[1].value = input[1].value
        /\ msg[1].value = ProbeGivenText

C11_Witness ==
    /\ probe.op = "upload"
    /\ ~probe.begun.threw
    /\ probe.context = JUndefined
    /\ probe.files # <<>>
    /\ PartsNamed(ProbeBody, "chatInput")[1].value = ""

\* the session ids of the request a call of a transport operation issues
SessionIds(begun) ==
    {p.value : p \in {begun.posts[1].body[i] : i \in
                         {k \in 1..Len(begun.posts[1].body) :
                              begun.posts[1].body[k].name = "sessionId"}}}

\* the session ids of any chat call and of any ingestion call made on day d
ChatSessionIds(d) ==
    UNION {SessionIds(sendChatMessage(DEFAULT_URL, m, h, fs, DateStrings[d])) :
               m \in ProbeTexts, h \in ProbeHistories, fs \in FileLists}
UploadSessionIds(d) ==
    UNION {SessionIds(uploadFilesToWebhook(DEFAULT_URL, fs, t, DateStrings[d])) :
               fs \in FileLists, t \in ProbeContexts}

\* C20: a request carries one session id; every chat request of the same day
\* carries the id of this chat request, every ingestion request of the same
\* day the id of this ingestion request, and the chat id and the ingestion id
\* of a day differ.
C20_SessionIdPerContextAndDay ==
    (probe.op # "none" /\ ~probe.begun.threw) =>
        /\ Len(PartsNamed(ProbeBody, "sessionId")) = 1
        /\ Cardinality(SessionIds(probe.begun)) = 1
        /\ IF probe.op = "chat"
           THEN /\ ChatSessionIds(probe.day) = SessionIds(probe.begun)
                /\ UploadSessionIds(probe.day) \cap SessionIds(probe.begun) = {}
           ELSE /\ UploadSessionIds(probe.day) = SessionIds(probe.begun)
                /\ ChatSessionIds(probe.day) \cap SessionIds(probe.begun) = {}

C20_Witness ==
    /\ probe.op = "upload"
    /\ ~probe.begun.threw
    /\ probe.day = Len(DateStrings)
    /\ probe.context = JStr("hi")
    /\ probe.files # <<>>
    /\ SessionIds(probe.begun) = {"ingestion-Fri Oct 30 2026"}

\* C21: a call of a transport operation with a URL issues exactly one POST, to
\* that URL, and this stays so when the request succeeds, fails with a status
\* or is rejected; in the application a request is issued only in the step of
\* a user action (a send, a click on Send to N8N), one request per action.
C21_OnePostPerInvocation ==
    /\ []((probe.op # "none" /\ probe.url # "") =>
             /\ ~probe.begun.threw
             /\ Len(probe.begun.posts) = 1
             /\ probe.begun.posts[1].method = "POST"
             /\ probe.begun.posts[1].url = probe.url)
    /\ [][/\ Len(chatReqs') > Len(chatReqs) =>
                /\ Len(chatReqs') = Len(chatReqs) + 1
                /\ Len(messages') = Len(messages) + 1
                /\ messages'[Len(messages')].role = "user"
          /\ Len(uploadReqs') > Len(uploadReqs) =>
                /\ Len(uploadReqs') = Len(uploadReqs) + 1
                /\ ~isProcessingUpload
                /\ isProcessingUpload'
         ]_vars

C21_Witness ==
    /\ probe.op = "upload"
    /\ probe.settled
    /\ probe.response = Rejection
    /\ probe.result.threw
    /\ Len(probe.begun.posts) = 1

-----------------------------------------------------------------------------
(* Further properties of the upload queue (UploadSpec) *)

\* a step that takes items out of the queue without being the delayed clear
IsRemoval == Len(files') < Len(files) /\ clearTimers' = clearTimers

\* how often url occurs in the log of revokeObjectURL calls
TimesRevoked(log, url) == Len(SelectSeq(log, LAMBDA u : u = url))

\* C12: every removal by the user takes out exactly one item, whose status is
\* pending, keeps every other item and the order, and releases the preview of
\* the item, if it has one, exactly once; no other step releases a preview.
C12_RemoveOnlyPending ==
    [][/\ IsRemoval =>
            \E k \in 1..Len(files) :
                /\ files[k].status = "pending"
                /\ files' = RemoveAt(files, k)
                /\ IF files[k].previewUrl = "" THEN revoked' = revoked
                   ELSE /\ revoked' = Append(revoked, files[k].previewUrl)
                        /\ TimesRevoked(revoked, files[k].previewUrl) = 0
       /\ revoked' # revoked => IsRemoval
      ]_vars

C12_Witness ==
    /\ revoked # <<>>
    /\ Len(files) = 1
    /\ files[1].id > 1
    /\ files[1].status = "success"

\* the item is in the queue
InQueue(queue, item) == \E i \in 1..Len(queue) : queue[i].id = item.id

\* C13: a preview is released exactly once: when an item with a preview leaves
\* the queue, by removal or by the clear after a successful submit, its preview
\* has been released once, and no preview is ever released twice.
C13_PreviewReleasedOnce ==
    [][/\ \A i \in 1..Len(files) :
            (files[i].previewUrl # "" /\ ~InQueue(files', files[i]))
                => TimesRevoked(revoked', files[i].previewUrl) = 1
       /\ \A i \in 1..Len(revoked') : TimesRevoked(revoked', revoked'[i]) = 1
      ]_vars

\* the queue, the text context and the status banner are all cleared
Cleared == files = <<>> /\ textContext = "" /\ uploadStatus = NoUploadStatus

\* C14: a submit that succeeds schedules one clear, and a scheduled clear leads
\* to the queue, the text context and the banner being cleared; a submit that
\* fails schedules none.
C14_SuccessLeadsToClear ==
    /\ (clearTimers > 0) ~> Cleared
    /\ [][/\ Len(uploadReqs') < Len(uploadReqs) =>
                clearTimers' = clearTimers + (IF IsFailure(uploadLast') THEN 0 ELSE 1)
          /\ clearTimers' > clearTimers =>
                (Len(uploadReqs') < Len(uploadReqs) /\ ~IsFailure(uploadLast'))
         ]_vars

C14_Witness ==
    /\ uploadLast.type = "response"
    /\ Ok(uploadLast)
    /\ clearTimers = 0
    /\ nextId > 0
    /\ Cleared

\* C17: when the request of a submit fails, the queue holds exactly the items
\* that were submitted, in their order and with status error, and the text
\* context is the one that was submitted.
C17_FailedSubmitKeepsQueue ==
    [][(Len(uploadReqs') < Len(uploadReqs) /\ IsFailure(uploadLast')) =>
          \E k \in 1..Len(uploadReqs) :
              LET sent == BinaryParts(uploadReqs[k].body) IN
              /\ uploadReqs' = RemoveAt(uploadReqs, k)
              /\ Len(files') = Len(sent)
              /\ \A i \in 1..Len(sent) : files'[i].file = sent[i].file
              /\ AllStatus(files', "error")
              /\ textContext' = textContext
              /\ textContext' = PartsNamed(uploadReqs[k].body, "message")[1].value
      ]_vars

-----------------------------------------------------------------------------
(* Further properties of the conversation (ChatSpec) *)

\* C15: the messages of the conversation log have pairwise distinct ids.
C15_DistinctIds ==
    \A i, j \in 1..Len(messages) : i # j => messages[i].id # messages[j].id

\* C16: the log is append-only: in every step the log before the step is a
\* prefix of the log after it.
C16_LogIsAppendOnly ==
    [][/\ Len(messages') >= Len(messages)
       /\ SubSeq(messages', 1, Len(messages)) = messages]_vars

C16_Witness ==
    /\ Len(messages) = 2 * MaxTurns
    /\ activeTab = "upload"
    /\ stored # NoStored
    /\ messages[1].content # messages[3].content

-----------------------------------------------------------------------------
(* Properties of the configuration (SettingsSpec) *)

\* the value JSON.parse gives for the stored text, when it gives one
StoredValue == ConfigParse(stored.text).value
Unparsable == ~stored.present \/ stored.text = "" \/ ConfigParse(stored.text).threw

\* C18: loading gives DEFAULT_CONFIG when nothing is stored or the stored text
\* does not parse; for a stored object a field that is missing or the empty
\* string is replaced by its default, any other string is kept; a loaded
\* configuration has no empty URL. The dialog, when closed, holds the loaded one.
C18_LoadFallsBackToDefaults ==
    LET loaded == loadConfig(stored) IN
    /\ loaded \in [ingestionUrl : Urls \cup {CustomUrl}, chatUrl : Urls \cup {CustomUrl}]
    /\ loaded.ingestionUrl # ""
    /\ loaded.chatUrl # ""
    /\ Unparsable => loaded = DEFAULT_CONFIG
    /\ (~Unparsable /\ StoredValue.t = "object") =>
           \A field \in {"ingestionUrl", "chatUrl"} :
               IF field \notin DOMAIN StoredValue.f \/ StoredValue.f[field] = JStr("")
               THEN loaded[field] = DEFAULT_CONFIG[field]
               ELSE StoredValue.f[field].t = "string" => loaded[field] = StoredValue.f[field].s
    /\ ~isSettingsOpen => modalConfig = loaded

C18_Witness ==
    /\ stored.text = ConfigText([ingestionUrl |-> "", chatUrl |-> ""])
    /\ config.chatUrl = ""
    /\ ~isSettingsOpen
    /\ modalConfig = DEFAULT_CONFIG

\* C28: the configuration of the session equals what loading the stored
\* configuration gives, after every save, a save of an empty URL included.
C28_SessionMatchesStore == config = loadConfig(stored)

-----------------------------------------------------------------------------
(* Properties of the failure messages (FailureSpec) *)

\* the error message holds the diagnostic of a misconfigured Respond mode
HasDiagnostic(err) == Includes(err, "Unused Respond to Webhook node")

\* C19: a failed chat turn ends in an isError message and a failed ingestion
\* submit in a failure status with every item in error; the surfaced text
\* holds the remediation hint exactly when the error message holds the
\* diagnostic "Unused Respond to Webhook node".
C19_HintIffDiagnostic ==
    [][/\ (Len(chatReqs') < Len(chatReqs) /\ IsFailure(chatLast')) =>
             LET err == chatSettle(chatLast').error
                 shown == messages'[Len(messages')] IN
             /\ shown.isError
             /\ shown.role = "assistant"
             /\ shown.content = "Error: " \o err
                                \o (IF HasDiagnostic(err) THEN "\n\n(!) " \o Advice ELSE "")
       /\ (Len(uploadReqs') < Len(uploadReqs) /\ IsFailure(uploadLast')) =>
             LET err == uploadSettle(uploadLast').error IN
             /\ uploadStatus'.set
             /\ ~uploadStatus'.success
             /\ AllStatus(files', "error")
             /\ uploadStatus'.message = (IF HasDiagnostic(err) THEN err \o "\n\nFIX: " \o Advice
                                         ELSE "Failed to upload: " \o err)
      ]_vars

C19_Witness ==
    /\ chatLast = ResponseOf(500, "{\"message\":\"" \o UnusedRespondError \o "\"}")
    /\ LastMessage.isError
    /\ LastMessage.content = "Error: " \o UnusedRespondError \o "\n\n(!) " \o Advice
    /\ uploadLast = ResponseOf(500, "Internal Server Error")
    /\ files # <<>>
    /\ uploadStatus = [set |-> TRUE, success |-> FALSE,
                       message |-> "Failed to upload: Internal Server Error"]

\* the history parts of a request body
HistoryParts(body) == SelectSeq(body, LAMBDA p : p.name = "history")

\* C27: the request of a chat turn carries one history part, which holds the
\* role and content of every message of the log as it was before the user
\* message of the turn was appended, in log order, error messages included,
\* and not the user message of the turn.
C27_HistoryIsLogBeforeTurn ==
    [][Len(chatReqs') > Len(chatReqs) =>
          LET sent == HistoryParts(chatReqs'[Len(chatReqs')].body) IN
          /\ Len(sent) = 1
          /\ Len(messages') = Len(messages) + 1
          /\ Len(sent[1].json) = Len(messages)
          /\ \A i \in 1..Len(messages) :
                sent[1].json[i] = [role |-> messages[i].role, content |-> messages[i].content]
      ]_vars

C27_Witness ==
    /\ Len(chatReqs) = 1
    /\ Len(messages) = 3
    /\ messages[2].isError
    /\ Len(HistoryParts(chatReqs[1].body)[1].json) = 2
    /\ HistoryParts(chatReqs[1].body)[1].json[2].role = "assistant"

-----------------------------------------------------------------------------
(* Properties of the order of the upload queue (UploadSpec) *)

\* the ids of the items of a queue, in queue order
IdsOf(queue) == [i \in 1..Len(queue) |-> queue[i].id]

\* C23: in every step the items that stay in the queue keep their relative
\* order, and the items that are new to the queue have status pending and
\* stand after every item that was there before.
C23_NewItemsLastOrderKept ==
    [][LET was == {files[i].id : i \in 1..Len(files)}
           stays == {files'[i].id : i \in 1..Len(files')} IN
       /\ IdsOf(SelectSeq(files, LAMBDA f : f.id \in stays))
             = IdsOf(SelectSeq(files', LAMBDA f : f.id \in was))
       /\ \A i \in 1..Len(files') :
             files'[i].id \notin was =>
                /\ files'[i].status = "pending"
                /\ \A j \in i..Len(files') : files'[j].id \notin was
      ]_vars

C23_Witness ==
    /\ Len(files) = 2
    /\ IdsOf(files) = <<2, 3>>
    /\ files[1].status = "success"
    /\ files[2].status = "pending"

\* C24: the delayed clear takes out only items of the batch that succeeded:
\* an item that is pending when the timer fires, added after the success, stays
\* in the queue.
C24_ClearKeepsLaterItems ==
    [][clearTimers' < clearTimers =>
          \A i \in 1..Len(files) : files[i].status = "pending" => InQueue(files', files[i])
      ]_vars

\* C25: no ingestion request is issued that carries the file of an item whose
\* status is success.
C25_SucceededFileNotResent ==
    [][Len(uploadReqs') > Len(uploadReqs) =>
          \A i \in 1..Len(files) : files[i].status # "success"
      ]_vars

\* C26: while an ingestion request is outstanding every item of the queue is
\* uploading and no item is added to or taken out of the queue; while none is
\* outstanding no item is uploading; the processing flag tells which is the case.
C26_FlagAndStatusesAgree ==
    /\ [](/\ isProcessingUpload <=> Len(uploadReqs) > 0
          /\ Len(uploadReqs) > 0 => AllStatus(files, "uploading")
          /\ Len(uploadReqs) = 0 => \A i \in 1..Len(files) : files[i].status # "uploading")
    /\ [][Len(uploadReqs) > 0 => IdsOf(files') = IdsOf(files)]_vars

-----------------------------------------------------------------------------
(* Properties of the outstanding requests (EventsSpec) *)

\* C22: at most one chat request and at most one ingestion request is
\* outstanding, and the loading flags tell whether one is; a chat request and
\* an ingestion request can be outstanding together.
C22_OneOutstandingPerKind ==
    /\ Len(chatReqs) <= 1
    /\ Len(uploadReqs) <= 1
    /\ isChatLoading <=> Len(chatReqs) = 1
    /\ isProcessingUpload <=> Len(uploadReqs) = 1

C22_Witness ==
    /\ Len(chatReqs) = 1
    /\ Len(uploadReqs) = 1
    /\ isChatLoading
    /\ isProcessingUpload

-----------------------------------------------------------------------------
(* Properties of the application with unset URLs (UnsetSpec) *)

\* C29: no request of the application goes to an empty URL. While the ingestion
\* URL is unset no step issues an ingestion request, sets the processing flag
\* or moves a pending item to another status; a
\* step that opens the settings dialog, the Send to N8N click with an unset
\* URL among them, leaves the queue, the text context, the banner and the flag
\* as they are. While the chat URL is unset no step appends a user message,
\* and the log never holds the configuration error of the chat operation.
C29_NoCallWithUnsetUrl ==
    /\ [](/\ \A i \in 1..Len(chatReqs) : chatReqs[i].url # ""
          /\ \A i \in 1..Len(uploadReqs) : uploadReqs[i].url # ""
          /\ \A i \in 1..Len(messages) :
                messages[i].content # "Error: " \o ConfigErrorOf("chat")
          /\ uploadStatus # FailureStatus(ConfigErrorOf("upload")))
    /\ [][/\ config.ingestionUrl = "" =>
                /\ Len(uploadReqs') <= Len(uploadReqs)
                /\ isProcessingUpload' => isProcessingUpload
                /\ \A i \in 1..Len(files), j \in 1..Len(files') :
                      (files[i].id = files'[j].id /\ files[i].status = "pending")
                          => files'[j].status = "pending"
          /\ (~isSettingsOpen /\ isSettingsOpen') =>
                UNCHANGED <<files, textContext, uploadStatus, isProcessingUpload,
                            uploadReqs, clearTimers>>
          /\ config.chatUrl = "" =>
                /\ Len(chatReqs') <= Len(chatReqs)
                /\ \A i \in (Len(messages) + 1)..Len(messages') : messages'[i].role # "user"
         ]_vars

C29_Witness ==
    /\ config = [ingestionUrl |-> "", chatUrl |-> ""]
    /\ activeTab = "upload"
    /\ isSettingsOpen
    /\ files # <<>>
    /\ files[1].status = "pending"
    /\ messages # <<>>

====
